---- MODULE Spec2Model ----
(***************************************************************************)
(* Model of OpenCppCoverage's debug loop (CppCoverage/Debugger.cpp) and of *)
(* its coverage filter manager (CppCoverage/CoverageFilterManager.cpp).    *)
(*                                                                         *)
(* Spec        the debug loop fed with arbitrary debug events              *)
(* LiveSpec    the debug loop fed by a well-behaved OS, with fairness      *)
(* FilterSpec  the filter manager's predicates on bounded inputs           *)
(***************************************************************************)
EXTENDS Integers, Sequences, FiniteSets, TLC

VARIABLES
    \* ---- Debugger (Debugger.cpp) ----
    pc,                         \* position of Debug: "idle" (not called), "test"
                                \* (line 94), "wait" (line 96), "done", "failed"
    continueAfterCppException,  \* Debugger::continueAfterCppException_
    stopOnAssert,               \* Debugger::stopOnAssert_
    dumpOnCrash,                \* Debugger::dumpOnCrash_
    processHandles,             \* keys of Debugger::processHandles_
    threadHandles,              \* keys of Debugger::threadHandles_
    rootProcessId,              \* Debugger::rootProcessId_ (optional)
    exitCode,                   \* local exitCode of Debug (optional)
    retval,                     \* value returned by Debug (optional: set when done)
    error,                      \* what Debug threw, "" when nothing
    event,                      \* the DEBUG_EVENT of the current iteration (optional)
    steps,                      \* what the current iteration did, in order
    hist,                       \* history of the current Debug call
    \* ---- CoverageFilterManager (CoverageFilterManager.cpp) ----
    wildcardFiles,              \* files wildcardCoverageFilter_ accepts
    diffFilters,                \* unifiedDiffCoverageFilters_
    query,                      \* the last predicate call (optional)
    answer                      \* its result and the diff filters it consulted

dbgVars == <<pc, continueAfterCppException, stopOnAssert, dumpOnCrash,
             processHandles, threadHandles, rootProcessId, exitCode, retval,
             error, event, steps, hist>>
fltVars == <<wildcardFiles, diffFilters, query, answer>>
vars == <<dbgVars, fltVars>>

(***************************************************************************)
(* Bounds of the model.                                                    *)
(***************************************************************************)
MaxPid == 2
MaxTid == 2
MaxLine == 3
MaxFilters == 2
MaxPaths == 3

Pids == 1..MaxPid
Tids == 1..MaxTid

(***************************************************************************)
(* boost::optional<T>: the empty set, or a singleton.                      *)
(***************************************************************************)
None == {}
Some(v) == {v}
Value(o) == CHOOSE v \in o : TRUE

(***************************************************************************)
(* A DWORD, as its two 16-bit halves, and its conversion to int (32 bits,  *)
(* two's complement).                                                      *)
(***************************************************************************)
DWord(hi, lo) == [hi |-> hi, lo |-> lo]
ToInt(dw) == IF dw.hi >= 32768 THEN (dw.hi - 65536) * 65536 + dw.lo
                               ELSE dw.hi * 65536 + dw.lo

(***************************************************************************)
(* Windows values used by Debugger.cpp: 0x00010002, 0x80010001, 0x80000003 *)
(***************************************************************************)
DBG_CONTINUE == DWord(1, 2)
DBG_EXCEPTION_NOT_HANDLED == DWord(32769, 1)
EXCEPTION_BREAKPOINT == DWord(32768, 3)

\* get_optional_value_or with DBG_EXCEPTION_NOT_HANDLED for its default.
get_optional_value_or_NotHandled(o, d) ==
    IF o = None THEN DBG_EXCEPTION_NOT_HANDLED ELSE Value(o)

\* boost::get_optional_value_or
get_optional_value_or(o, d) == IF o = None THEN d ELSE Value(o)

\* dwExitCode values: 7 and 0xC0000005 (the process died of an access
\* violation).  ExceptionRecord.ExceptionCode values: 0xE06D7363 (a C++
\* exception).
ExitCodes == {DWord(0, 7), DWord(49152, 5)}
ExceptionCodes == {DWord(57453, 29539)}
ExceptionTypes == {"BreakPoint", "InvalidBreakPoint", "NotHandled", "Error",
                   "CppError", "Invalid"}

(***************************************************************************)
(* DEBUG_EVENT.  code is dwDebugEventCode.  With the event come the        *)
(* answers of the collaborators while it is handled: raises (the handler   *)
(* callback invoked for the event throws), type (what handler.OnException  *)
(* returns) and ctxOk (GetThreadContext succeeds).  A field that the code  *)
(* does not read for an event is left blank, as BaseEvent has it: the      *)
(* payload of another kind of event, the exit code when the callback       *)
(* throws, dwFirstChance unless HandleCrashDump gets to line 190, ctxOk    *)
(* unless it gets to line 198.                                             *)
(***************************************************************************)
BaseEvent(code, p, t) ==
    [code |-> code, pid |-> p, tid |-> t, dwExitCode |-> DWord(0, 0), type |-> "",
     ExceptionCode |-> DWord(0, 0), dwFirstChance |-> FALSE, ctxOk |-> TRUE, raises |-> FALSE]

PlainEvents(code) == {BaseEvent(code, p, t) : p \in Pids, t \in Tids}
CallbackEvents(code) ==
    {[e EXCEPT !.raises = r] : e \in PlainEvents(code), r \in BOOLEAN}
ExitProcessEvents ==
    {[e EXCEPT !.dwExitCode = c] : e \in PlainEvents("EXIT_PROCESS"), c \in ExitCodes}
    \cup {[e EXCEPT !.raises = TRUE] : e \in PlainEvents("EXIT_PROCESS")}

\* Exceptions by what handler.OnException makes of them.
ClassifiedEvents ==
    {[e EXCEPT !.type = ty, !.ExceptionCode = x] :
        e \in PlainEvents("EXCEPTION"), ty \in ExceptionTypes, x \in ExceptionCodes}
RaisingExceptionEvents == {[e EXCEPT !.raises = TRUE] : e \in PlainEvents("EXCEPTION")}
\* With dumpOnCrash_ set, HandleCrashDump reads dwFirstChance, and it calls
\* GetThreadContext when the dump is not skipped.
DumpableEvents == {e \in ClassifiedEvents : e.type \notin {"BreakPoint", "Invalid"}}
FirstChanceEvents == {[e EXCEPT !.dwFirstChance = TRUE] : e \in DumpableEvents}
NoContextEvents ==
    {[e EXCEPT !.ctxOk = FALSE] :
        e \in {d \in DumpableEvents \cup FirstChanceEvents :
                    d.type = "InvalidBreakPoint" \/ ~d.dwFirstChance}}
ExceptionEvents ==
    IF dumpOnCrash
    THEN ClassifiedEvents \cup RaisingExceptionEvents \cup FirstChanceEvents
            \cup NoContextEvents
    ELSE ClassifiedEvents \cup RaisingExceptionEvents

CreateProcessEvents == CallbackEvents("CREATE_PROCESS")
CreateThreadEvents == PlainEvents("CREATE_THREAD")
ExitThreadEvents == PlainEvents("EXIT_THREAD")
LoadDllEvents == CallbackEvents("LOAD_DLL")
UnloadDllEvents == CallbackEvents("UNLOAD_DLL")
RipEvents == PlainEvents("RIP")
OtherEvents == PlainEvents("OTHER")

(***************************************************************************)
(* The part of the state one iteration works on.  steps logs every effect  *)
(* in order, each with the tables as they are right after it.              *)
(***************************************************************************)
NoErr == ""
EmptyStatus == [exitCode_ |-> None, continueStatus_ |-> None]
ProcessStatus(ec, cs) == [exitCode_ |-> ec, continueStatus_ |-> cs]

Step(m, op, arg) ==
    [m EXCEPT !.steps = Append(@, [op |-> op, arg |-> arg, procs |-> m.processHandles,
                                   threads |-> m.threadHandles])]
Throw(m, what) == [m EXCEPT !.err = what]
Return(m, st) == [m EXCEPT !.status = st]

\* A handler callback: logged, and it may throw.
Callback(m, name, raises) ==
    IF raises THEN Throw(Step(m, name, <<>>), "HandlerRaised") ELSE Step(m, name, <<>>)

(***************************************************************************)
(* Debugger::OnCreateThread and Debugger::OnExitThread                     *)
(***************************************************************************)
OnCreateThread(m, dwThreadId) ==
    IF dwThreadId \in m.threadHandles
    THEN Throw(m, "Thread id already exist")
    ELSE Step([m EXCEPT !.threadHandles = @ \cup {dwThreadId}],
              "threadHandles.emplace", <<dwThreadId>>)

\* OnExitThread that empties the thread table.
OnExitThread_ErasesAll(m, dwThreadId) ==
    IF dwThreadId \notin m.threadHandles
    THEN Throw(m, "Cannot find exited thread.")
    ELSE Step([m EXCEPT !.threadHandles = {}], "threadHandles.erase", <<dwThreadId>>)

OnExitThread(m, dwThreadId) ==
    IF dwThreadId \notin m.threadHandles
    THEN Throw(m, "Cannot find exited thread.")
    ELSE Step([m EXCEPT !.threadHandles = @ \ {dwThreadId}],
              "threadHandles.erase", <<dwThreadId>>)

\* OnCreateProcess that takes every created process for the root.
OnCreateProcess_RootIsLatest(m, ev) ==
    LET m1 == [m EXCEPT !.rootProcessId = Some(ev.pid)]
        m2 == IF ev.pid \in m1.processHandles
              THEN Throw(m1, "Process id already exist")
              ELSE Step([m1 EXCEPT !.processHandles = @ \cup {ev.pid}],
                        "processHandles.emplace", <<ev.pid>>)
        m3 == IF m2.err # NoErr THEN m2
              ELSE Callback(m2, "handler.OnCreateProcess", ev.raises)
        m4 == IF m3.err # NoErr THEN m3
              ELSE IF ev.tid \in m3.threadHandles
              THEN Throw(m3, "Thread id already exist")
              ELSE Step([m3 EXCEPT !.threadHandles = @ \cup {ev.tid}],
                        "threadHandles.emplace", <<ev.tid>>)
    IN  Step(m4, "CloseHandle", <<>>)

(***************************************************************************)
(* Debugger::OnCreateProcess.  The scoped action closes the payload's file *)
(* handle when the function is left, normally or by an exception.          *)
(***************************************************************************)
OnCreateProcess(m, ev) ==
    LET m1 == IF m.rootProcessId = None /\ m.processHandles = {}
              THEN [m EXCEPT !.rootProcessId = Some(ev.pid)]
              ELSE m
        m2 == IF ev.pid \in m1.processHandles
              THEN Throw(m1, "Process id already exist")
              ELSE Step([m1 EXCEPT !.processHandles = @ \cup {ev.pid}],
                        "processHandles.emplace", <<ev.pid>>)
        m3 == IF m2.err # NoErr THEN m2
              ELSE Callback(m2, "handler.OnCreateProcess", ev.raises)
        m4 == IF m3.err # NoErr THEN m3 ELSE OnCreateThread(m3, ev.tid)
    IN  Step(m4, "CloseHandle", <<>>)

\* OnExitProcess that leaves the process entry in the table.
OnExitProcess_KeepsProcess(m, ev) ==
    LET m1 == OnExitThread(m, ev.tid)
        m2 == IF m1.err # NoErr THEN m1
              ELSE Callback(m1, "handler.OnExitProcess", ev.raises)
    IN  IF m2.err # NoErr THEN m2
        ELSE Return(m2, ProcessStatus(Some(ToInt(ev.dwExitCode)), None))

\* OnExitProcess with the process entry erased before the handler is told.
OnExitProcess_ErasesFirst(m, ev) ==
    LET m1 == OnExitThread(m, ev.tid)
        m2 == IF m1.err # NoErr THEN m1
              ELSE IF ev.pid \notin m1.processHandles
              THEN Throw(m1, "Cannot find exited process.")
              ELSE Step([m1 EXCEPT !.processHandles = @ \ {ev.pid}],
                        "processHandles.erase", <<ev.pid>>)
        m3 == IF m2.err # NoErr THEN m2
              ELSE Callback(m2, "handler.OnExitProcess", ev.raises)
    IN  IF m3.err # NoErr THEN m3
        ELSE Return(m3, ProcessStatus(Some(ToInt(ev.dwExitCode)), None))

(***************************************************************************)
(* Debugger::OnExitProcess: leaves the exit code in status.exitCode_, as   *)
(* its caller wraps it (HandleNotCreationalEvent, lines 151-152).          *)
(***************************************************************************)
OnExitProcess(m, ev) ==
    LET m1 == OnExitThread(m, ev.tid)
        m2 == IF m1.err # NoErr THEN m1
              ELSE Callback(m1, "handler.OnExitProcess", ev.raises)
        m3 == IF m2.err # NoErr THEN m2
              ELSE IF ev.pid \notin m2.processHandles
              THEN Throw(m2, "Cannot find exited process.")
              ELSE Step([m2 EXCEPT !.processHandles = @ \ {ev.pid}],
                        "processHandles.erase", <<ev.pid>>)
    IN  IF m3.err # NoErr THEN m3
        ELSE Return(m3, ProcessStatus(Some(ToInt(ev.dwExitCode)), None))

\* HandleCrashDump that never dumps on a first-chance exception.
HandleCrashDump_SkipsFirstChance(m, ev, includeFirstChance) ==
    IF ~dumpOnCrash THEN m
    ELSE IF ev.dwFirstChance THEN m
    ELSE LET m1 == Step(m, IF ev.ctxOk THEN "GetThreadContext"
                                     ELSE "GetThreadContext failed", <<>>)
         IN  Step(m1, "CreateMiniDumpFromException", <<ev.pid, ev.tid>>)

\* HandleCrashDump that throws when GetThreadContext fails.
HandleCrashDump_ChecksContext(m, ev, includeFirstChance) ==
    IF ~dumpOnCrash THEN m
    ELSE IF ev.dwFirstChance /\ ~includeFirstChance THEN m
    ELSE IF ~ev.ctxOk THEN Throw(Step(m, "GetThreadContext failed", <<>>),
                                 "Error GetThreadContext:")
    ELSE Step(Step(m, "GetThreadContext", <<>>),
              "CreateMiniDumpFromException", <<ev.pid, ev.tid>>)

(***************************************************************************)
(* Debugger::HandleCrashDump.  The result of GetThreadContext is not       *)
(* looked at; the outcome of the dump is only logged.                      *)
(***************************************************************************)
HandleCrashDump(m, ev, includeFirstChance) ==
    IF ~dumpOnCrash THEN m
    ELSE IF ev.dwFirstChance /\ ~includeFirstChance THEN m
    ELSE LET m1 == Step(m, IF ev.ctxOk THEN "GetThreadContext"
                                     ELSE "GetThreadContext failed", <<>>)
         IN  Step(m1, "CreateMiniDumpFromException", <<ev.pid, ev.tid>>)

\* The InvalidBreakPoint case without the test of stopOnAssert_.
OnInvalidBreakPoint_AlwaysSwallows(m, ev) ==
    Return(HandleCrashDump(m, ev, TRUE),
           ProcessStatus(Some(ToInt(EXCEPTION_BREAKPOINT)), Some(DBG_CONTINUE)))

(***************************************************************************)
(* Debugger::OnException, case InvalidBreakPoint (lines 248-265)           *)
(***************************************************************************)
OnInvalidBreakPoint(m, ev) ==
    LET m1 == HandleCrashDump(m, ev, TRUE)
    IN  IF stopOnAssert
        THEN Return(m1, ProcessStatus(None, Some(DBG_EXCEPTION_NOT_HANDLED)))
        ELSE Return(m1, ProcessStatus(Some(ToInt(EXCEPTION_BREAKPOINT)),
                                      Some(DBG_CONTINUE)))

(***************************************************************************)
(* Debugger::OnException                                                   *)
(***************************************************************************)
OnException(m, ev) ==
    LET m1 == Callback(m, "handler.OnException", ev.raises)
    IN  IF m1.err # NoErr THEN m1
        ELSE CASE ev.type = "BreakPoint" ->
                    Return(m1, ProcessStatus(None, Some(DBG_CONTINUE)))
               [] ev.type = "InvalidBreakPoint" -> OnInvalidBreakPoint(m1, ev)
               [] ev.type = "NotHandled" ->
                    Return(HandleCrashDump(m1, ev, FALSE),
                           ProcessStatus(None, Some(DBG_EXCEPTION_NOT_HANDLED)))
               [] ev.type = "Error" ->
                    Return(HandleCrashDump(m1, ev, FALSE),
                           ProcessStatus(None, Some(DBG_EXCEPTION_NOT_HANDLED)))
               [] ev.type = "CppError" ->
                    LET m2 == HandleCrashDump(m1, ev, FALSE)
                    IN  IF continueAfterCppException
                        THEN Return(m2, ProcessStatus(Some(ToInt(ev.ExceptionCode)),
                                                      Some(DBG_CONTINUE)))
                        ELSE Return(m2, ProcessStatus(None, Some(DBG_EXCEPTION_NOT_HANDLED)))
               [] OTHER -> Throw(m1, "Invalid exception Type.")

(***************************************************************************)
(* Debugger::HandleNotCreationalEvent.  hProcess and hThread were looked   *)
(* up by the caller.                                                       *)
(***************************************************************************)
HandleNotCreationalEvent(m, ev) ==
    CASE ev.code = "EXIT_PROCESS" -> OnExitProcess(m, ev)
      [] ev.code = "EXIT_THREAD" -> OnExitThread(m, ev.tid)
      [] ev.code = "LOAD_DLL" ->
            Step(Callback(m, "handler.OnLoadDll", ev.raises), "CloseHandle", <<>>)
      [] ev.code = "UNLOAD_DLL" -> Callback(m, "handler.OnUnloadDll", ev.raises)
      [] ev.code = "EXCEPTION" -> OnException(m, ev)
      [] ev.code = "RIP" -> Step(m, "OnRip", <<>>)
      [] OTHER -> m

(***************************************************************************)
(* Debugger::GetProcessHandle / GetThreadHandle: map::at throws when the   *)
(* id is not in the table.                                                 *)
(***************************************************************************)
GetProcessHandle(m, dwProcessId) ==
    IF dwProcessId \in m.processHandles THEN m ELSE Throw(m, "out_of_range")

\* GetThreadHandle with map::operator[] in place of map::at.
GetThreadHandle_NoThrow(m, dwThreadId) == m

GetThreadHandle(m, dwThreadId) ==
    IF dwThreadId \in m.threadHandles THEN m ELSE Throw(m, "out_of_range")

(***************************************************************************)
(* Debugger::HandleDebugEvent                                              *)
(***************************************************************************)
HandleDebugEvent(m, ev) ==
    CASE ev.code = "CREATE_PROCESS" -> OnCreateProcess(m, ev)
      [] ev.code = "CREATE_THREAD" -> OnCreateThread(m, ev.tid)
      [] OTHER ->
            LET m1 == GetProcessHandle(m, ev.pid)
                m2 == IF m1.err # NoErr THEN m1 ELSE GetThreadHandle(m1, ev.tid)
            IN  IF m2.err # NoErr THEN m2 ELSE HandleNotCreationalEvent(m2, ev)

\* The latch without its test of the event being the root's.
LatchExitCode_AnyProcess(status, root, dwProcessId, current) ==
    IF status.exitCode_ # None /\ current = None
    THEN status.exitCode_
    ELSE current

\* The latch without its test of the exit code being unset.
LatchExitCode_Overwrites(status, root, dwProcessId, current) ==
    IF status.exitCode_ # None /\ root = Some(dwProcessId)
    THEN status.exitCode_
    ELSE current

(***************************************************************************)
(* Debugger::Debug, lines 101-104: the exit code of the root process is    *)
(* set once.                                                               *)
(***************************************************************************)
LatchExitCode(status, root, dwProcessId, current) ==
    IF status.exitCode_ # None /\ root = Some(dwProcessId) /\ current = None
    THEN status.exitCode_
    ELSE current

\* The loop condition without its test of the process table.
LoopCondition_RootOnly == exitCode = None

\* The loop condition if it waited for the thread table to drain as well.
LoopCondition_WaitsForThreads ==
    exitCode = None \/ processHandles # {} \/ threadHandles # {}

\* The loop condition with the thread table in place of the process table.
LoopCondition_ThreadTable == exitCode = None \/ threadHandles # {}

\* The condition of the while loop of Debug.
LoopCondition == exitCode = None \/ processHandles # {}

(***************************************************************************)
(* History of the current Debug call, kept for the properties only:        *)
(*   root       pid of the first CREATE_PROCESS event handled              *)
(*   rootExit   dwExitCode of the first EXIT_PROCESS event of that pid     *)
(*   transient  exit code of the first root exception that carried one     *)
(*              before the root's EXIT_PROCESS event                       *)
(*   created    pids of the CREATE_PROCESS events handled                  *)
(*   procs      pids of the CREATE_PROCESS events handled with no          *)
(*              EXIT_PROCESS event of the pid handled since                *)
(*   threads    tids of the CREATE_PROCESS and CREATE_THREAD events        *)
(*              handled with no EXIT_THREAD or EXIT_PROCESS event of the   *)
(*              tid handled since                                          *)
(***************************************************************************)
NoHist == [root |-> None, rootExit |-> None, transient |-> None, created |-> {},
           procs |-> {}, threads |-> {}]

CarriesExitCode(ev) ==
    /\ ev.code = "EXCEPTION"
    /\ \/ ev.type = "InvalidBreakPoint" /\ ~stopOnAssert
       \/ ev.type = "CppError" /\ continueAfterCppException

Record(h, ev) ==
    LET isRoot == h.root = Some(ev.pid) /\ h.rootExit = None
    IN  CASE ev.code = "CREATE_PROCESS" ->
                [h EXCEPT !.root = IF @ = None THEN Some(ev.pid) ELSE @,
                          !.created = @ \cup {ev.pid},
                          !.procs = @ \cup {ev.pid},
                          !.threads = @ \cup {ev.tid}]
          [] ev.code = "EXIT_PROCESS" ->
                [h EXCEPT !.rootExit = IF isRoot THEN Some(ev.dwExitCode) ELSE @,
                          !.procs = @ \ {ev.pid},
                          !.threads = @ \ {ev.tid}]
          [] ev.code = "CREATE_THREAD" -> [h EXCEPT !.threads = @ \cup {ev.tid}]
          [] ev.code = "EXIT_THREAD" -> [h EXCEPT !.threads = @ \ {ev.tid}]
          [] CarriesExitCode(ev) /\ isRoot /\ h.transient = None ->
                [h EXCEPT !.transient =
                    Some(ToInt(IF ev.type = "CppError" THEN ev.ExceptionCode
                                                       ELSE EXCEPTION_BREAKPOINT))]
          [] OTHER -> h

(***************************************************************************)
(* Debugger::Debug                                                         *)
(***************************************************************************)
\* Lines 84-92: the tables and the root process id are reset.
DebugStart ==
    /\ pc \in {"idle", "done", "failed"}
    /\ pc' = "test"
    /\ processHandles' = {}
    /\ threadHandles' = {}
    /\ rootProcessId' = None
    /\ exitCode' = None
    /\ retval' = None
    /\ error' = NoErr
    /\ event' = None
    /\ steps' = <<>>
    /\ hist' = NoHist
    /\ UNCHANGED <<continueAfterCppException, stopOnAssert, dumpOnCrash, fltVars>>

\* Line 94: the loop goes on.
LoopTest ==
    /\ pc = "test"
    /\ LoopCondition
    /\ pc' = "wait"
    /\ event' = None
    /\ steps' = <<>>
    /\ UNCHANGED <<continueAfterCppException, stopOnAssert, dumpOnCrash,
                   processHandles, threadHandles, rootProcessId, exitCode, retval,
                   error, hist, fltVars>>

\* Lines 96-97: WaitForDebugEvent fails.
WaitFails ==
    /\ pc = "wait"
    /\ pc' = "failed"
    /\ error' = "Error WaitForDebugEvent:"
    /\ steps' = <<[op |-> "WaitForDebugEvent failed", arg |-> <<>>,
                   procs |-> processHandles, threads |-> threadHandles]>>
    /\ UNCHANGED <<continueAfterCppException, stopOnAssert, dumpOnCrash,
                   processHandles, threadHandles, rootProcessId, exitCode, retval,
                   event, hist, fltVars>>

\* What HandleDebugEvent makes of ev in the current state.
Handled(ev) ==
    HandleDebugEvent(
        Step([processHandles |-> processHandles, threadHandles |-> threadHandles,
              rootProcessId |-> rootProcessId, steps |-> <<>>, err |-> NoErr,
              status |-> EmptyStatus], "WaitForDebugEvent", <<>>),
        ev)

\* The payload of an event whose ids are not looked up successfully is never
\* read (lines 129-131): such an event is taken with its payload blank.
PayloadRead(ev, m) ==
    m.err = "out_of_range" => ev = BaseEvent(ev.code, ev.pid, ev.tid)

\* Lines 96-110: the body of the loop, on event ev.  ContinueDebugEvent
\* succeeds or fails.
Iterate(ev) ==
    /\ pc = "wait"
    /\ \E m \in {Handled(ev)} :
        /\ PayloadRead(ev, m)
        /\ event' = Some(ev)
        /\ processHandles' = m.processHandles
        /\ threadHandles' = m.threadHandles
        /\ rootProcessId' = m.rootProcessId
        /\ IF m.err # NoErr
           THEN /\ pc' = "failed"
                /\ error' = m.err
                /\ steps' = m.steps
                /\ UNCHANGED <<exitCode, hist>>
           ELSE /\ exitCode' = LatchExitCode(m.status, m.rootProcessId, ev.pid, exitCode)
                /\ hist' = Record(hist, ev)
                /\ \E continueOk \in BOOLEAN :
                    /\ steps' = Step(m, IF continueOk THEN "ContinueDebugEvent"
                                                     ELSE "ContinueDebugEvent failed",
                                     <<ev.pid, ev.tid,
                                       get_optional_value_or(m.status.continueStatus_,
                                                             DBG_CONTINUE)>>).steps
                    /\ pc' = IF continueOk THEN "test" ELSE "failed"
                    /\ error' = IF continueOk THEN NoErr
                                              ELSE "Error in ContinueDebugEvent:"
    /\ UNCHANGED <<continueAfterCppException, stopOnAssert, dumpOnCrash, retval, fltVars>>

\* Lines 94 and 112: the loop ends and Debug returns.
DebugReturn ==
    /\ pc = "test"
    /\ ~LoopCondition
    /\ pc' = "done"
    /\ retval' = Some(Value(exitCode))
    /\ UNCHANGED <<continueAfterCppException, stopOnAssert, dumpOnCrash,
                   processHandles, threadHandles, rootProcessId, exitCode,
                   error, event, steps, hist, fltVars>>

(***************************************************************************)
(* The events the loop may receive: any event, on any ids.                 *)
(***************************************************************************)
CreateProcessEvent ==
    pc = "wait" /\ \E ev \in CreateProcessEvents : Iterate(ev)
CreateThreadEvent ==
    pc = "wait" /\ \E ev \in CreateThreadEvents : Iterate(ev)
ExitProcessEvent ==
    pc = "wait" /\ \E ev \in ExitProcessEvents : Iterate(ev)
ExitThreadEvent ==
    pc = "wait" /\ \E ev \in ExitThreadEvents : Iterate(ev)
LoadDllEvent ==
    pc = "wait" /\ \E ev \in LoadDllEvents : Iterate(ev)
UnloadDllEvent ==
    pc = "wait" /\ \E ev \in UnloadDllEvents : Iterate(ev)
ExceptionEvent ==
    pc = "wait" /\ \E ev \in ExceptionEvents : Iterate(ev)
RipEvent ==
    pc = "wait" /\ \E ev \in RipEvents : Iterate(ev)
OtherEvent ==
    pc = "wait" /\ \E ev \in OtherEvents : Iterate(ev)

\* The filter manager as constructed with no diff filter; unused by the loop.
FilterIdle ==
    /\ wildcardFiles = {}
    /\ diffFilters = <<>>
    /\ query = None
    /\ answer = None

Init ==
    /\ pc = "idle"
    /\ continueAfterCppException \in BOOLEAN
    /\ stopOnAssert \in BOOLEAN
    /\ dumpOnCrash \in BOOLEAN
    /\ processHandles = {}
    /\ threadHandles = {}
    /\ rootProcessId = None
    /\ exitCode = None
    /\ retval = None
    /\ error = NoErr
    /\ event = None
    /\ steps = <<>>
    /\ hist = NoHist
    /\ FilterIdle

Next ==
    \/ DebugStart
    \/ LoopTest
    \/ WaitFails
    \/ CreateProcessEvent
    \/ CreateThreadEvent
    \/ ExitProcessEvent
    \/ ExitThreadEvent
    \/ LoadDllEvent
    \/ UnloadDllEvent
    \/ ExceptionEvent
    \/ RipEvent
    \/ OtherEvent
    \/ DebugReturn

Spec == Init /\ [][Next]_vars

(***************************************************************************)
(* The debug loop fed by an OS that keeps to the rules: no call fails, no  *)
(* callback throws, no event violates the tables, a process is created at  *)
(* most once per pid, the last thread of a process leaves with its         *)
(* EXIT_PROCESS event, and as long as there are processes in the table one *)
(* of them delivers its EXIT_PROCESS event in the end.                     *)
(***************************************************************************)
Delivered(ev) == Iterate(ev) /\ pc' = "test"

LiveStart == pc = "idle" /\ DebugStart
LiveCreateProcess ==
    /\ pc = "wait"
    /\ \E ev \in CreateProcessEvents : ev.pid \notin hist.created /\ Delivered(ev)
LiveCreateThread == pc = "wait" /\ \E ev \in CreateThreadEvents : Delivered(ev)
LiveExitThread ==
    /\ pc = "wait"
    /\ Cardinality(threadHandles) > Cardinality(processHandles)
    /\ \E ev \in ExitThreadEvents : Delivered(ev)
LiveExitProcess ==
    /\ pc = "wait"
    /\ \E ev \in ExitProcessEvents : ev.pid \in processHandles /\ Delivered(ev)
LiveOtherEvent ==
    /\ pc = "wait"
    /\ \E ev \in LoadDllEvents \cup UnloadDllEvents \cup ExceptionEvents
              \cup RipEvents \cup OtherEvents : Delivered(ev)

LiveNext ==
    \/ LiveStart
    \/ LoopTest
    \/ LiveCreateProcess
    \/ LiveCreateThread
    \/ LiveExitThread
    \/ LiveExitProcess
    \/ LiveOtherEvent
    \/ DebugReturn

\* Where LiveExitProcess is enabled, and where a step of it has just been taken.
ExitProcessPending == pc = "wait" /\ processHandles # {}
ExitProcessHandled == pc = "test" /\ \E e \in event : e.code = "EXIT_PROCESS"

\* The loop is not stopped between two calls, and strong fairness of
\* LiveExitProcess, written out on the states before and after its steps.
LiveSpec ==
    /\ Init
    /\ [][LiveNext]_vars
    /\ WF_vars(LoopTest)
    /\ WF_vars(DebugReturn)
    /\ ([]<>ExitProcessPending) => ([]<>ExitProcessHandled)

(***************************************************************************)
(* CoverageFilterManager.  A unified-diff filter holds the lines one diff  *)
(* selects in one file; the wildcard filter is the set of source files it  *)
(* accepts.  A predicate's answer comes with the diff filters it consulted,*)
(* in order, and the line it asked them about.                             *)
(***************************************************************************)
Files == {"x.cpp", "y.cpp"}
Lines == 1..MaxLine
SelectedLines == {{}} \cup {{l} : l \in Lines}
Paths == 1..MaxPaths
\* The paths of its diff that a filter has not matched are read by
\* ComputeWarningMessageLines only.
DiffFilters == [file : Files, lines : SelectedLines, unmatched : {{}}]
WarningFilters == [file : {"x.cpp"}, lines : {{}}, unmatched : SUBSET Paths]
FilterSequences == UNION {[1..n -> DiffFilters] : n \in 0..MaxFilters}
WarningSequences == UNION {[1..n -> WarningFilters] : n \in 0..MaxFilters}

\* UnifiedDiffCoverageFilter::IsSourceFileSelected, ::IsLineSelected and
\* ::GetUnmatchedPaths
GetUnmatchedPaths(filter) == filter.unmatched
DiffIsSourceFileSelected(filter, filename) == filename = filter.file
DiffIsLineSelected(filter, filename, line) ==
    filename = filter.file /\ line \in filter.lines

Min(S) == CHOOSE x \in S : \A y \in S : x <= y
Max(S) == CHOOSE x \in S : \A y \in S : y <= x

\* AnyOfOrTrueIfEmpty with all_of in place of any_of.
AnyOfOrTrueIfEmpty_AllOf(answers) ==
    IF answers = <<>>
    THEN [result |-> TRUE, consulted |-> <<>>]
    ELSE LET misses == {i \in DOMAIN answers : ~answers[i]}
             last == IF misses = {} THEN Len(answers) ELSE Min(misses)
         IN  [result |-> misses = {}, consulted |-> [i \in 1..last |-> i]]

(***************************************************************************)
(* AnyOfOrTrueIfEmpty.  answers[i] is what the predicate answers on the    *)
(* i-th element; std::any_of asks the elements in order and stops at the   *)
(* first that answers true.                                                *)
(***************************************************************************)
AnyOfOrTrueIfEmpty(answers) ==
    IF answers = <<>>
    THEN [result |-> TRUE, consulted |-> <<>>]
    ELSE LET hits == {i \in DOMAIN answers : answers[i]}
             last == IF hits = {} THEN Len(answers) ELSE Min(hits)
         IN  [result |-> hits # {}, consulted |-> [i \in 1..last |-> i]]

(***************************************************************************)
(* std::set<int>: its elements in ascending order, and lower_bound, the    *)
(* position of the first element not less than the key (end is Len + 1).   *)
(***************************************************************************)
Ascending(S) ==
    CHOOSE s \in [1..Cardinality(S) -> S] : \A i, j \in DOMAIN s : i < j => s[i] < s[j]
lower_bound(s, key) ==
    IF \E i \in DOMAIN s : s[i] >= key
    THEN Min({i \in DOMAIN s : s[i] >= key})
    ELSE Len(s) + 1

\* GetExecutableLineOrPreviousOne that answers the line itself when the set
\* has nothing at or below it.
GetExecutableLineOrPreviousOne_OrItself(lineNumber, executableLinesSet) ==
    IF \E l \in executableLinesSet : l < lineNumber /\ lineNumber \notin executableLinesSet
    THEN Some(Max({l \in executableLinesSet : l < lineNumber}))
    ELSE Some(lineNumber)

\* GetExecutableLineOrPreviousOne that gives the line itself up when it is
\* not executable.
GetExecutableLineOrPreviousOne_ExactOnly(lineNumber, executableLinesSet) ==
    IF lineNumber \in executableLinesSet THEN Some(lineNumber) ELSE None

(***************************************************************************)
(* GetExecutableLineOrPreviousOne                                          *)
(***************************************************************************)
GetExecutableLineOrPreviousOne(lineNumber, executableLinesSet) ==
    LET s == Ascending(executableLinesSet)
        it == lower_bound(s, lineNumber)
    IN  IF it # Len(s) + 1 /\ s[it] = lineNumber
        THEN Some(lineNumber)
        ELSE IF it = 1 THEN None ELSE Some(s[it - 1])

(***************************************************************************)
(* CoverageFilterManager::IsSourceFileSelected                             *)
(***************************************************************************)
IsSourceFileSelected(filename) ==
    IF filename \notin wildcardFiles
    THEN [result |-> FALSE, consulted |-> <<>>, asked |-> None]
    ELSE LET any == AnyOfOrTrueIfEmpty(
                        [i \in DOMAIN diffFilters |->
                            DiffIsSourceFileSelected(diffFilters[i], filename)])
         IN  [result |-> any.result, consulted |-> any.consulted, asked |-> None]

\* IsLineSelected without its test of the diff-filter sequence being empty.
IsLineSelected_ResolvesFirst(filename, lineNumber, executableLinesSet) ==
    LET executableLineNumber ==
            GetExecutableLineOrPreviousOne(lineNumber, executableLinesSet)
    IN  IF executableLineNumber = None
        THEN [result |-> FALSE, consulted |-> <<>>, asked |-> None]
        ELSE LET any == AnyOfOrTrueIfEmpty(
                            [i \in DOMAIN diffFilters |->
                                DiffIsLineSelected(diffFilters[i], filename,
                                                   Value(executableLineNumber))])
             IN  [result |-> any.result, consulted |-> any.consulted,
                  asked |-> executableLineNumber]

(***************************************************************************)
(* CoverageFilterManager::IsLineSelected                                   *)
(***************************************************************************)
IsLineSelected(filename, lineNumber, executableLinesSet) ==
    IF diffFilters = <<>>
    THEN [result |-> TRUE, consulted |-> <<>>, asked |-> None]
    ELSE LET executableLineNumber ==
                GetExecutableLineOrPreviousOne(lineNumber, executableLinesSet)
         IN  IF executableLineNumber = None
             THEN [result |-> FALSE, consulted |-> <<>>, asked |-> None]
             ELSE LET any == AnyOfOrTrueIfEmpty(
                                [i \in DOMAIN diffFilters |->
                                    DiffIsLineSelected(diffFilters[i], filename,
                                                       Value(executableLineNumber))])
                  IN  [result |-> any.result, consulted |-> any.consulted,
                       asked |-> executableLineNumber]

(***************************************************************************)
(* CoverageFilterManager::ComputeWarningMessageLines.  A path is its rank  *)
(* in the order of std::set<path>; a message line is what it says and the  *)
(* number or the path it carries.                                          *)
(***************************************************************************)
MessageLine(kind, arg) == [kind |-> kind, arg |-> arg]
Header(n) ==
    <<MessageLine("separator", 0), MessageLine("You have n path(s)", n),
      MessageLine("because they did not match", 0), MessageLine("To see all files", 0)>>

\* The loop with > in place of >= in its test.
ComputeWarningMessageLinesOf_OffByOne(unmatchPaths, maxUnmatchPaths) ==
    IF unmatchPaths = {} THEN <<>>
    ELSE LET s == Ascending(unmatchPaths)
             stop == {k \in DOMAIN s : k - 1 > maxUnmatchPaths}
             last == IF stop = {} THEN Len(s) ELSE Min(stop)
         IN  Header(Cardinality(unmatchPaths)) \o
                [k \in 1..last |-> IF k \in stop THEN MessageLine("...", 0)
                                                 ELSE MessageLine("path", s[k])]

\* Lines 139-166.  The loop runs over the set in order with i = k - 1 at
\* its k-th round, and ends with the round in which i >= maxUnmatchPaths.
ComputeWarningMessageLinesOf(unmatchPaths, maxUnmatchPaths) ==
    IF unmatchPaths = {} THEN <<>>
    ELSE LET s == Ascending(unmatchPaths)
             stop == {k \in DOMAIN s : k - 1 >= maxUnmatchPaths}
             last == IF stop = {} THEN Len(s) ELSE Min(stop)
         IN  Header(Cardinality(unmatchPaths)) \o
                [k \in 1..last |-> IF k \in stop THEN MessageLine("...", 0)
                                                 ELSE MessageLine("path", s[k])]

\* Lines 125-136
ComputeWarningMessageLines(maxUnmatchPaths) ==
    ComputeWarningMessageLinesOf(
        UNION {GetUnmatchedPaths(diffFilters[i]) : i \in DOMAIN diffFilters},
        maxUnmatchPaths)

\* The debugger as constructed, Debug not called; unused by the filters.
DebuggerIdle ==
    /\ pc = "idle"
    /\ continueAfterCppException = FALSE
    /\ stopOnAssert = FALSE
    /\ dumpOnCrash = FALSE
    /\ processHandles = {}
    /\ threadHandles = {}
    /\ rootProcessId = None
    /\ exitCode = None
    /\ retval = None
    /\ error = NoErr
    /\ event = None
    /\ steps = <<>>
    /\ hist = NoHist

\* The manager as its constructor leaves it (lines 78-84).
FilterInit ==
    /\ DebuggerIdle
    /\ wildcardFiles \in SUBSET Files
    /\ diffFilters \in FilterSequences
    /\ query = None
    /\ answer = None

\* A caller asks one question at a time.
CallIsSourceFileSelected ==
    /\ query = None
    /\ \E f \in Files :
        /\ query' = Some([op |-> "IsSourceFileSelected", file |-> f, line |-> 0,
                          lines |-> {}])
        /\ answer' = Some(IsSourceFileSelected(f))
    /\ UNCHANGED <<wildcardFiles, diffFilters, dbgVars>>

CallIsLineSelected ==
    /\ query = None
    /\ \E f \in Files, n \in Lines, S \in SUBSET Lines :
        /\ query' = Some([op |-> "IsLineSelected", file |-> f, line |-> n, lines |-> S])
        /\ answer' = Some(IsLineSelected(f, n, S))
    /\ UNCHANGED <<wildcardFiles, diffFilters, dbgVars>>

\* The caller has its answer.
CallReturns ==
    /\ query # None
    /\ query' = None
    /\ answer' = None
    /\ UNCHANGED <<wildcardFiles, diffFilters, dbgVars>>

FilterNext ==
    \/ CallIsSourceFileSelected
    \/ CallIsLineSelected
    \/ CallReturns

FilterSpec == FilterInit /\ [][FilterNext]_vars

(***************************************************************************)
(* The manager asked for its warning, over diff filters with unmatched     *)
(* paths.                                                                  *)
(***************************************************************************)
WarningInit ==
    /\ DebuggerIdle
    /\ wildcardFiles = {}
    /\ diffFilters \in WarningSequences
    /\ query = None
    /\ answer = None

CallComputeWarningMessageLines ==
    /\ query = None
    /\ \E maxUnmatchPaths \in 0..(MaxPaths + 1) :
        /\ query' = Some([op |-> "ComputeWarningMessageLines", file |-> "",
                          line |-> maxUnmatchPaths, lines |-> {}])
        /\ answer' = Some([result |-> ComputeWarningMessageLines(maxUnmatchPaths)])
    /\ UNCHANGED <<wildcardFiles, diffFilters, dbgVars>>

WarningNext ==
    \/ CallComputeWarningMessageLines
    \/ CallReturns

WarningSpec == WarningInit /\ [][WarningNext]_vars

(***************************************************************************)
(* What the properties read off the current iteration.                     *)
(***************************************************************************)
Did(op) == \E i \in DOMAIN steps : steps[i].op = op
StepsOf(op) == {i \in DOMAIN steps : steps[i].op = op}
\* Every call of ContinueDebugEvent of the iteration, failed or not.
ContinueCalls ==
    {i \in DOMAIN steps : steps[i].op \in {"ContinueDebugEvent", "ContinueDebugEvent failed"}}
\* The tables as the iteration found them.
Before == steps[1]
\* The iteration's event went through HandleDebugEvent without an exception.
HandledOk == event # None /\ error \in {NoErr, "Error in ContinueDebugEvent:"}
Returned == pc = "done"
IntOf(dw) == Some(ToInt(Value(dw)))
HandlerCallbacks == {"handler.OnCreateProcess", "handler.OnExitProcess", "handler.OnLoadDll",
                     "handler.OnUnloadDll", "handler.OnException"}

(***************************************************************************)
(* C1 as stated: whenever Debug returns, the root's EXIT_PROCESS event has *)
(* been handled and the value returned is the dwExitCode it carried, also  *)
(* when the root raised a swallowed InvalidBreakPoint or a continued       *)
(* CppError before exiting.                                                *)
(***************************************************************************)
C1_ReturnsRootExitCode ==
    Returned => hist.rootExit # None /\ retval = IntOf(hist.rootExit)

(***************************************************************************)
(* C1 amended: whenever Debug returns, the root's EXIT_PROCESS event has   *)
(* been handled and the value returned is the first exit code an event of  *)
(* the root supplied: the code of the first swallowed InvalidBreakPoint or *)
(* continued CppError the root raised before exiting if there is one, and  *)
(* the dwExitCode of its EXIT_PROCESS event otherwise.                     *)
(***************************************************************************)
C1_ReturnsFirstRootCode ==
    Returned =>
        /\ hist.rootExit # None
        /\ retval = IF hist.transient # None THEN hist.transient ELSE IntOf(hist.rootExit)

\* Debug returned the code of a root exception, not the root's dwExitCode,
\* after a descendant had been created too.
C1_Witness ==
    /\ Returned
    /\ hist.transient # None
    /\ retval = hist.transient
    /\ retval # IntOf(hist.rootExit)
    /\ Cardinality(hist.created) > 1

(***************************************************************************)
(* C2: Debug returns only once the root's EXIT_PROCESS event has been      *)
(* handled and the process table is empty; in particular not right after   *)
(* the root's exit with a descendant still in the table, nor right after a *)
(* descendant's exit with the root still in the table.                     *)
(***************************************************************************)
C2_ReturnsOnlyAfterRootExitAndEmptyTable ==
    Returned => hist.rootExit # None /\ processHandles = {}

\* Debug returned after the exit of a descendant that outlived the root.
C2_Witness ==
    /\ Returned
    /\ Cardinality(hist.created) > 1
    /\ \E e \in event : e.code = "EXIT_PROCESS" /\ Some(e.pid) # hist.root

(***************************************************************************)
(* C4: for an EXCEPTION event that is handled, the directive passed to     *)
(* ContinueDebugEvent is DBG_EXCEPTION_NOT_HANDLED exactly when the        *)
(* classification is NotHandled or Error, or CppError without              *)
(* continueAfterCppException, or InvalidBreakPoint with stopOnAssert, and  *)
(* DBG_CONTINUE otherwise, whatever dumpOnCrash and the first-chance flag. *)
(***************************************************************************)
NotHandledExpected(e) ==
    \/ e.type \in {"NotHandled", "Error"}
    \/ e.type = "CppError" /\ ~continueAfterCppException
    \/ e.type = "InvalidBreakPoint" /\ stopOnAssert

C4_ExceptionDirective ==
    \A e \in event :
        e.code = "EXCEPTION" /\ HandledOk =>
            /\ Cardinality(ContinueCalls) = 1
            /\ \A i \in ContinueCalls :
                steps[i].arg[3] = IF NotHandledExpected(e) THEN DBG_EXCEPTION_NOT_HANDLED
                                                           ELSE DBG_CONTINUE

\* A first-chance InvalidBreakPoint with stopOnAssert and dumpOnCrash was
\* passed on as not handled.
C4_Witness ==
    \E e \in event :
        /\ e.code = "EXCEPTION" /\ e.type = "InvalidBreakPoint" /\ e.dwFirstChance
        /\ stopOnAssert /\ dumpOnCrash /\ HandledOk
        /\ \E i \in ContinueCalls : steps[i].arg[3] = DBG_EXCEPTION_NOT_HANDLED

(***************************************************************************)
(* C5: a minidump is attempted for an event iff the event is an EXCEPTION  *)
(* the handler classified, dumpOnCrash is set and the classification is    *)
(* InvalidBreakPoint (first chance or not, stopOnAssert or not) or it is   *)
(* NotHandled, Error or CppError and the exception is not first chance.    *)
(***************************************************************************)
Classified(e) ==
    e.code = "EXCEPTION" /\ Did("handler.OnException") /\ ~e.raises

DumpExpected(e) ==
    /\ Classified(e)
    /\ dumpOnCrash
    /\ \/ e.type = "InvalidBreakPoint"
       \/ e.type \in {"NotHandled", "Error", "CppError"} /\ ~e.dwFirstChance

C5_DumpAttempted ==
    /\ event = None => ~Did("CreateMiniDumpFromException")
    /\ \A e \in event : Did("CreateMiniDumpFromException") <=> DumpExpected(e)

\* A dump was written for a first-chance InvalidBreakPoint.
C5_Witness ==
    \E e \in event :
        /\ e.type = "InvalidBreakPoint" /\ e.dwFirstChance
        /\ Did("CreateMiniDumpFromException")

(***************************************************************************)
(* C6: an event that violates the handle tables makes Debug fail: no       *)
(* value is returned and ContinueDebugEvent is not called for it.  The     *)
(* violations: CREATE_PROCESS on a pid in the process table; CREATE_PROCESS*)
(* or CREATE_THREAD on a tid in the thread table; any other event on a pid *)
(* not in the process table or a tid not in the thread table.  But for a   *)
(* duplicate tid, no handler callback is invoked and both tables are left  *)
(* as they were.                                                           *)
(***************************************************************************)
DuplicatePid(e) == e.code = "CREATE_PROCESS" /\ e.pid \in Before.procs
DuplicateTid(e) ==
    e.code \in {"CREATE_PROCESS", "CREATE_THREAD"} /\ e.tid \in Before.threads
MissingId(e) ==
    /\ e.code \notin {"CREATE_PROCESS", "CREATE_THREAD"}
    /\ e.pid \notin Before.procs \/ e.tid \notin Before.threads

C7_ContextFailureIsFatal ==
    Did("GetThreadContext failed") /\ error # "Error in ContinueDebugEvent:" =>
        /\ pc = "failed"
        /\ ~Did("CreateMiniDumpFromException")
        /\ ContinueCalls = {}

(***************************************************************************)
(* C7 amended: a failure of GetThreadContext during the capture of a crash *)
(* dump goes unnoticed: the dump is still written, ContinueDebugEvent is   *)
(* still called with the directive of the exception, and Debug fails only  *)
(* if that call fails.                                                     *)
(***************************************************************************)
C7_ContextFailureIsIgnored ==
    Did("GetThreadContext failed") =>
        /\ Did("CreateMiniDumpFromException")
        /\ Cardinality(ContinueCalls) = 1
        /\ \A e \in event : \A i \in ContinueCalls :
                steps[i].arg[3] = IF NotHandledExpected(e) THEN DBG_EXCEPTION_NOT_HANDLED
                                                           ELSE DBG_CONTINUE
        /\ pc = "failed" => error = "Error in ContinueDebugEvent:"

\* GetThreadContext failed and the loop went on to its next test.
C7_Witness ==
    /\ Did("GetThreadContext failed")
    /\ Did("CreateMiniDumpFromException")
    /\ pc = "test"

(***************************************************************************)
(* C8: on CREATE_PROCESS, handler.OnCreateProcess is invoked with the pid  *)
(* in the process table and before the initial thread's tid is put in the  *)
(* thread table; on EXIT_PROCESS, handler.OnExitProcess is invoked after   *)
(* the exiting thread's entry has been removed, with the pid still in the  *)
(* process table, which loses it after the call.                           *)
(***************************************************************************)
AllBefore(first, second) ==
    \A i \in StepsOf(first), j \in StepsOf(second) : i < j

C8_CallbackOrder ==
    \A e \in event :
        /\ e.code = "CREATE_PROCESS" /\ HandledOk =>
                /\ Cardinality(StepsOf("handler.OnCreateProcess")) = 1
                /\ StepsOf("processHandles.emplace") # {}
                /\ StepsOf("threadHandles.emplace") # {}
        /\ e.code = "CREATE_PROCESS" =>
                /\ AllBefore("processHandles.emplace", "handler.OnCreateProcess")
                /\ AllBefore("handler.OnCreateProcess", "threadHandles.emplace")
                /\ \A i \in StepsOf("handler.OnCreateProcess") :
                        e.pid \in steps[i].procs /\ steps[i].threads = Before.threads
        /\ e.code = "EXIT_PROCESS" /\ HandledOk =>
                /\ Cardinality(StepsOf("handler.OnExitProcess")) = 1
                /\ StepsOf("threadHandles.erase") # {}
                /\ StepsOf("processHandles.erase") # {}
        /\ e.code = "EXIT_PROCESS" =>
                /\ AllBefore("threadHandles.erase", "handler.OnExitProcess")
                /\ AllBefore("handler.OnExitProcess", "processHandles.erase")
                /\ \A i \in StepsOf("handler.OnExitProcess") :
                        e.pid \in steps[i].procs /\ e.tid \notin steps[i].threads

\* An EXIT_PROCESS event was handled while another thread and another
\* process were in the tables.
C8_Witness ==
    \E e \in event :
        /\ e.code = "EXIT_PROCESS" /\ HandledOk
        /\ Did("handler.OnExitProcess")
        /\ processHandles # {} /\ threadHandles # {}

(***************************************************************************)
(* C3: with an OS that keeps to the rules (LiveSpec), once the root        *)
(* process has been created Debug returns in the end.                      *)
(***************************************************************************)
C3_Terminates == (hist.root # None) ~> Returned

\* Debug returned after two processes had been created and had exited, with
\* a thread that never announced its exit still in the thread table.
C3_Witness == Returned /\ Cardinality(hist.created) > 1 /\ threadHandles # {}

(***************************************************************************)
(* C9: IsSourceFileSelected(f) is false when the wildcard filter rejects f,*)
(* and then no diff filter is consulted; when the wildcard filter accepts  *)
(* f it is true if there is no diff filter and otherwise true iff some     *)
(* diff filter accepts f.  With no diff filter it is the wildcard filter's *)
(* answer.                                                                 *)
(***************************************************************************)
C9_SourceFileSelected ==
    \A q \in query, a \in answer :
        q.op = "IsSourceFileSelected" =>
            /\ q.file \notin wildcardFiles => ~a.result /\ a.consulted = <<>>
            /\ q.file \in wildcardFiles =>
                    a.result = (\/ diffFilters = <<>>
                                \/ \E i \in DOMAIN diffFilters :
                                        DiffIsSourceFileSelected(diffFilters[i], q.file))
            /\ diffFilters = <<>> => a.result = (q.file \in wildcardFiles)

\* The wildcard filter accepted the file, the first diff filter rejected it
\* and the second accepted it.
C9_Witness ==
    \E q \in query, a \in answer :
        /\ q.op = "IsSourceFileSelected"
        /\ q.file \in wildcardFiles
        /\ a.result
        /\ a.consulted = <<1, 2>>

(***************************************************************************)
(* C10: with diff filters, IsLineSelected(f, n, S) asks the diff filters   *)
(* about n when n is in S and about the largest element of S below n when  *)
(* n is not in S and S has an element below n; it is true iff some diff    *)
(* filter selects the line asked about.  So for n not in S with a          *)
(* predecessor p in S, IsLineSelected(f, n, S) = IsLineSelected(f, p, S).  *)
(***************************************************************************)
C10_LineResolution ==
    \A q \in query, a \in answer :
        q.op = "IsLineSelected" /\ diffFilters # <<>> =>
            LET below == {l \in q.lines : l < q.line}
            IN  /\ q.line \in q.lines => a.asked = Some(q.line)
                /\ q.line \notin q.lines /\ below # {} =>
                        /\ a.asked = Some(Max(below))
                        /\ a.result = IsLineSelected(q.file, Max(below), q.lines).result
                /\ a.asked # None =>
                        a.result = \E i \in DOMAIN diffFilters :
                                        DiffIsLineSelected(diffFilters[i], q.file,
                                                           Value(a.asked))

\* A line above every executable line was selected through its predecessor,
\* by the second of two diff filters.
C10_Witness ==
    \E q \in query, a \in answer :
        /\ q.op = "IsLineSelected"
        /\ q.line \notin q.lines
        /\ \A l \in q.lines : l < q.line
        /\ a.asked # None /\ a.asked # Some(q.line)
        /\ a.result
        /\ a.consulted = <<1, 2>>

(***************************************************************************)
(* C11: with diff filters, IsLineSelected(f, n, S) is false and no diff    *)
(* filter is consulted when n is not in S and S has no element below n.    *)
(***************************************************************************)
C11_NoPredecessor ==
    \A q \in query, a \in answer :
        /\ q.op = "IsLineSelected" /\ diffFilters # <<>>
        /\ q.line \notin q.lines
        /\ \A l \in q.lines : ~(l < q.line)
        => ~a.result /\ a.consulted = <<>> /\ a.asked = None

\* A line below the smallest executable line was asked about, with a diff
\* filter that selects that smallest line in the file.
C11_Witness ==
    \E q \in query, a \in answer :
        /\ q.op = "IsLineSelected" /\ diffFilters # <<>>
        /\ q.lines # {} /\ \A l \in q.lines : q.line < l
        /\ \E i \in DOMAIN diffFilters :
                DiffIsLineSelected(diffFilters[i], q.file, Min(q.lines))
        /\ ~a.result

(***************************************************************************)
(* C12: without diff filters, IsLineSelected(f, n, S) is true for every f, *)
(* n and S, whatever the wildcard filter makes of f.                       *)
(***************************************************************************)
C12_NoDiffFilterSelectsAll ==
    \A q \in query, a \in answer :
        q.op = "IsLineSelected" /\ diffFilters = <<>> => a.result /\ a.consulted = <<>>

\* A line was selected in a file the wildcard filter rejects, with no
\* executable line at all.
C12_Witness ==
    \E q \in query, a \in answer :
        /\ q.op = "IsLineSelected" /\ diffFilters = <<>>
        /\ q.file \notin wildcardFiles /\ q.lines = {}
        /\ a.result

(***************************************************************************)
(* C13: ComputeWarningMessageLines(max), with N the number of distinct     *)
(* unmatched paths of all diff filters: no line when N = 0; otherwise the  *)
(* four header lines, the second stating N, then the min(N, max) smallest  *)
(* paths in ascending order, then one "..." line iff N > max.              *)
(***************************************************************************)
AllUnmatched == UNION {diffFilters[i].unmatched : i \in DOMAIN diffFilters}

C13_WarningLines ==
    \A q \in query, a \in answer :
        q.op = "ComputeWarningMessageLines" =>
            LET N == Cardinality(AllUnmatched)
                max == q.line
                K == IF N < max THEN N ELSE max
                r == a.result
            IN  /\ N = 0 => r = <<>>
                /\ N > 0 =>
                    /\ Len(r) = 4 + K + (IF N > max THEN 1 ELSE 0)
                    /\ <<r[1], r[2], r[3], r[4]>> = Header(N)
                    /\ \A k \in 1..K :
                            /\ r[4 + k].kind = "path"
                            /\ r[4 + k].arg \in AllUnmatched
                            /\ Cardinality({x \in AllUnmatched : x < r[4 + k].arg}) = k - 1
                    /\ N > max => r[Len(r)] = MessageLine("...", 0)
                    /\ \A k \in 1..(Len(r) - 1) : r[k].kind # "..."
                    /\ N <= max => r[Len(r)].kind # "..."

\* Two filters share an unmatched path, and the warning lists two of the
\* three distinct paths before its "..." line.
C13_Witness ==
    \E q \in query, a \in answer :
        /\ q.op = "ComputeWarningMessageLines"
        /\ Len(diffFilters) = 2
        /\ diffFilters[1].unmatched \cap diffFilters[2].unmatched # {}
        /\ Cardinality(AllUnmatched) = 3 /\ q.line = 2
        /\ Len(a.result) = 7
        /\ a.result[7].kind = "..."

\* The last event went through HandleDebugEvent, or none has failed yet.
AfterHandled ==
    pc \in {"test", "wait", "done"} \/ error = "Error in ContinueDebugEvent:"

(***************************************************************************)
(* C14: after every event handled successfully, the process table holds    *)
(* exactly the pids whose CREATE_PROCESS event was handled with no         *)
(* EXIT_PROCESS event handled since; an event of another kind does not     *)
(* touch the process table.                                                *)
(***************************************************************************)
C14_ProcessTable ==
    /\ AfterHandled => processHandles = hist.procs
    /\ \A e \in event :
            HandledOk /\ e.code \notin {"CREATE_PROCESS", "EXIT_PROCESS"} =>
                \A i \in DOMAIN steps : steps[i].procs = Before.procs

\* One of two processes has exited and the table holds the other.
C14_Witness ==
    \E e \in event :
        /\ e.code = "EXIT_PROCESS" /\ HandledOk
        /\ processHandles # {}
        /\ processHandles = hist.created \ {e.pid}

(***************************************************************************)
(* C15: after every event handled successfully, the thread table holds     *)
(* exactly the tids announced by a handled CREATE_THREAD or CREATE_PROCESS *)
(* event and not since the thread of a handled EXIT_THREAD or EXIT_PROCESS *)
(* event; EXIT_PROCESS removes the event's own thread only; LOAD_DLL,      *)
(* UNLOAD_DLL, EXCEPTION and RIP events do not touch the thread table.     *)
(***************************************************************************)
C15_ThreadTable ==
    /\ AfterHandled => threadHandles = hist.threads
    /\ \A e \in event :
            /\ HandledOk /\ e.code = "EXIT_PROCESS" =>
                    threadHandles = Before.threads \ {e.tid}
            /\ HandledOk /\ e.code \in {"LOAD_DLL", "UNLOAD_DLL", "EXCEPTION", "RIP"} =>
                    \A i \in DOMAIN steps : steps[i].threads = Before.threads

\* The last process has exited and another thread is still in the table.
C15_Witness ==
    \E e \in event :
        /\ e.code = "EXIT_PROCESS" /\ HandledOk
        /\ processHandles = {}
        /\ threadHandles # {}

(***************************************************************************)
(* C16: within one Debug call the root process id is empty until the first *)
(* CREATE_PROCESS event, is set to the pid of that event, and does not     *)
(* change after that, whatever events follow.                              *)
(***************************************************************************)
C16_RootSetOnce ==
    [][/\ rootProcessId # None /\ pc \notin {"done", "failed"} =>
                rootProcessId' = rootProcessId
       /\ rootProcessId = None /\ rootProcessId' # None =>
                \E e \in event' : e.code = "CREATE_PROCESS" /\ rootProcessId' = Some(e.pid)
       /\ rootProcessId = None /\ pc = "wait" /\ AfterHandled' =>
                \A e \in event' : e.code = "CREATE_PROCESS" => rootProcessId' = Some(e.pid)
      ]_vars

\* A CREATE_PROCESS event was handled after the root had exited, and the
\* root process id is still the pid of the first one.
C16_Witness ==
    \E e \in event :
        /\ e.code = "CREATE_PROCESS" /\ HandledOk
        /\ hist.rootExit # None
        /\ rootProcessId = hist.root

(***************************************************************************)
(* C17: once the exit code is latched no event changes it, and an event of *)
(* a process other than the root never sets or changes it.                 *)
(***************************************************************************)
C17_LatchWriteOnce ==
    [][/\ exitCode # None /\ pc \notin {"done", "failed"} => exitCode' = exitCode
       /\ pc = "wait" =>
                \A e \in event' : rootProcessId' # Some(e.pid) => exitCode' = exitCode
      ]_vars

\* A descendant exited with another code after the exit code was latched.
C17_Witness ==
    \E e \in event :
        /\ e.code = "EXIT_PROCESS" /\ HandledOk
        /\ rootProcessId # Some(e.pid)
        /\ exitCode # None
        /\ exitCode # Some(ToInt(e.dwExitCode))

(***************************************************************************)
(* C18: an event handled without failure is followed, before the loop      *)
(* tests its condition again, by exactly one call of ContinueDebugEvent,   *)
(* with the pid and the tid of the event; for an event that is not an      *)
(* EXCEPTION the directive is DBG_CONTINUE.                                *)
(***************************************************************************)
C18_ContinuedOnce ==
    \A e \in event :
        HandledOk =>
            /\ ContinueCalls = {Len(steps)}
            /\ steps[Len(steps)].arg[1] = e.pid
            /\ steps[Len(steps)].arg[2] = e.tid
            /\ e.code # "EXCEPTION" => steps[Len(steps)].arg[3] = DBG_CONTINUE

\* Debug returned after the EXIT_PROCESS event that emptied the process
\* table was continued.
C18_Witness ==
    \E e \in event :
        /\ Returned /\ e.code = "EXIT_PROCESS"
        /\ steps[Len(steps)].op = "ContinueDebugEvent"
        /\ steps[Len(steps)].arg = <<e.pid, e.tid, DBG_CONTINUE>>

(***************************************************************************)
(* C19 as stated: for every CREATE_PROCESS and every LOAD_DLL event the    *)
(* loop receives, the file handle of the payload is closed exactly once by *)
(* the end of the iteration, however the iteration ends.                   *)
(***************************************************************************)
C19_FileHandleClosedOnce ==
    \A e \in event :
        e.code \in {"CREATE_PROCESS", "LOAD_DLL"} =>
            Cardinality(StepsOf("CloseHandle")) = 1

\* A LOAD_DLL event on a thread that is not in the thread table made Debug
\* fail with the file handle of its payload left open.
C19_Witness ==
    \E e \in event :
        /\ e.code = "LOAD_DLL"
        /\ e.pid \in Before.procs /\ e.tid \notin Before.threads
        /\ pc = "failed" /\ error = "out_of_range"
        /\ ~Did("CloseHandle")

(***************************************************************************)
(* C20 as stated: whenever Debug returns, the process table and the thread *)
(* table are both empty.                                                   *)
(***************************************************************************)
C20_TablesDrained ==
    Returned => processHandles = {} /\ threadHandles = {}

(***************************************************************************)
(* C20 amended: whenever Debug returns the process table is empty; the     *)
(* thread table still holds every tid that was announced and has not been  *)
(* the thread of an EXIT_THREAD or EXIT_PROCESS event since.               *)
(***************************************************************************)
C20_ProcessTableDrained ==
    Returned =>
        /\ processHandles = {}
        /\ threadHandles = hist.threads

\* Debug returned after its only process had exited, with a thread of a
\* CREATE_THREAD event still in the thread table.
C20_Witness ==
    /\ Returned
    /\ Cardinality(hist.created) = 1
    /\ processHandles = {}
    /\ threadHandles # {}

====
